---- MODULE Spec2Model ----
(***************************************************************************)
(* Model of MultiChannelADC.h: the interrupt-driven 8-channel round-robin  *)
(* ADC scan (ISR(ADC_vect)), the per-channel circular buffers, the shared  *)
(* median filter, the gated drain ADC_read and the accessor                *)
(* ADC_get_channel_value.                                                  *)
(*                                                                         *)
(* The ISR runs to completion (AVR clears the global interrupt flag on     *)
(* entry), so it is one action.  ADC_read runs in the foreground with      *)
(* interrupts enabled, so it is split at every buffer read: the ISR may    *)
(* fire between any two of its steps.  ADC_channel_samples is a uint16_t   *)
(* on an 8-bit core: the foreground loads and stores it one byte at a     *)
(* time, in an order the compiler chooses, and the ISR may fire between    *)
(* the two bytes.                                                          *)
(*                                                                         *)
(* CircularBuffer.h and MedianFilterLib.h are not part of the sources at   *)
(* hand; CircularBuffer and MedianFilter below are modelled from the       *)
(* design document's contracts (sections 4.2 and 4.4).                     *)
(***************************************************************************)
EXTENDS Integers, Sequences, FiniteSets, TLC

\* ---------------------------------------------------------------- constants
buffer_size == 5
ADC_NOISE_VALUE == 20
NumChannels == 8
UInt16 == 65536
UInt8 == 256
Channels == 0 .. (NumChannels - 1)

\* ------------------------------------------------------------------- bounds
\* Conversions the hardware completes in one explored run.
MaxCompletions == 48
\* Conversions completed in a run of the data-rich specification.
MaxCompletionsData == 40
\* Conversions completed in a run that begins late in the counter's range.
MaxCompletionsLate == 10

VARIABLES
  ADMUX,                \* MUX2..0 of the ADMUX register: the selected input
  ADCSRA,               \* set of the bits of ADCSRA that are 1
  SREG_I,               \* global interrupt enable
  ADC_channel,
  ADC_channel_samples,
  buffers,              \* ADC0_buffer .. ADC7_buffer
  medianFilter,         \* the one shared MedianFilter<int>
  adc_output,
  fg,                   \* where the foreground (setup/loop) stands
  env,                  \* which analog signal the run is fed
  log,                  \* history: per channel, the conversions delivered
  fed,                  \* history: sample numbers fed for the current channel
  fullAtGate,           \* history: all 8 buffers were full when the gate passed
  reached,              \* history: the counter has reached buffer_size
  drains,               \* history: number of completed drains
  since,                \* history: channel-0 completions since the last reset
  last                  \* history: the last foreground call and its result

vars == << ADMUX, ADCSRA, SREG_I, ADC_channel, ADC_channel_samples, buffers,
           medianFilter, adc_output, fg, env, log, fed, fullAtGate, reached,
           drains, since, last >>

\* ------------------------------------------------------------ CircularBuffer
\* CircularBuffer<int, buffer_size>: backing array, head, tail, count.
CircularBuffer ==
  [ buffer |-> [ i \in 0 .. (buffer_size - 1) |-> 0 ],
    head |-> 0, tail |-> 0, count |-> 0 ]

\* push(value): advance tail, store; when full the head advances as well
\* (the oldest element is overwritten).
push(b, value) ==
  LET t == (b.tail + 1) % buffer_size
  IN  IF b.count = buffer_size
        THEN [ b EXCEPT !.tail = t, !.buffer[t] = value,
                        !.head = (b.head + 1) % buffer_size ]
        ELSE [ b EXCEPT !.tail = t, !.buffer[t] = value,
                        !.head = IF b.count = 0 THEN t ELSE b.head,
                        !.count = b.count + 1 ]

\* operator[](index): index 0 is the oldest element; an index at or beyond
\* the current size yields the newest element.
at(b, index) ==
  IF index >= b.count
    THEN b.buffer[b.tail]
    ELSE b.buffer[(b.head + index) % buffer_size]

size(b) == b.count

\* -------------------------------------------------------------- MedianFilter
RECURSIVE InsertSorted(_, _)
InsertSorted(s, v) ==
  IF s = << >> THEN << v >>
  ELSE IF v < Head(s) THEN << v >> \o s
  ELSE << Head(s) >> \o InsertSorted(Tail(s), v)

RECURSIVE Sorted(_)
Sorted(s) ==
  IF s = << >> THEN << >> ELSE InsertSorted(Sorted(Tail(s)), Head(s))

\* MedianFilter<int>(buffer_size): the window of the last buffer_size values,
\* oldest first.
MedianFilter == << >>

AddValue(f, item) ==
  IF Len(f) >= buffer_size THEN Append(Tail(f), item) ELSE Append(f, item)

GetFiltered(f) ==
  IF f = << >> THEN 0 ELSE Sorted(f)[(Len(f) + 1) \div 2]

\* --------------------------------------------------------------- the signal
\* Level on input ch at its k-th conversion (k from 0) when no free signal is
\* applied: a fixed pattern around the noise threshold, 17 .. 24.
Level(ch, k) == 17 + ((ch + 3 * k) % 8)

Script0 == << 18, 19, 100, 21, 20 >>
Script3 == << 30, 25, 1000, 28, 27 >>
FreeRaw == { 19, 20, 100 }
FreeChannels == { 0, 3, 7 }

\* Readings the converter may deliver on input ch at its k-th conversion.
RawInput(e, ch, k) ==
  IF e.kind = "script" /\ ch = 0 THEN { Script0[(k % 5) + 1] }
  ELSE IF e.kind = "script" /\ ch = 3 THEN { Script3[(k % 5) + 1] }
  ELSE IF e.kind = "free" /\ e.ch = ch THEN FreeRaw
  ELSE { Level(ch, e.rounds + k) }

Completions ==
  LET RECURSIVE Sum(_)
      Sum(c) == IF c = NumChannels THEN 0 ELSE Len(log[c]) + Sum(c + 1)
  IN  Sum(0)

\* ------------------------------------------------------------------- state
Idle == [ op |-> "loop", ch |-> 0, i |-> 0 ]
NoCall ==
  [ op |-> "none", arg |-> 0, ret |-> 0, oob |-> FALSE, passed |-> FALSE,
    samples |-> 0 ]

InitCommon ==
  /\ ADMUX = 0
  /\ ADCSRA = { }
  /\ SREG_I = FALSE
  /\ ADC_channel = 0
  /\ ADC_channel_samples = 0
  /\ buffers = [ c \in Channels |-> CircularBuffer ]
  /\ medianFilter = MedianFilter
  /\ adc_output = [ c \in Channels |-> 0 ]
  /\ fg = [ op |-> "setup", ch |-> 0, i |-> 0 ]
  /\ log = [ c \in Channels |-> << >> ]
  /\ fed = << >>
  /\ fullAtGate = FALSE
  /\ reached = FALSE
  /\ drains = 0
  /\ since = 0
  /\ last = NoCall

\* env.rounds: rounds of the rotation completed before the run begins.
Init == InitCommon /\ env = [ kind |-> "level", ch |-> 0, rounds |-> 0 ]

InitData ==
  /\ InitCommon
  /\ env \in ({ [ kind |-> "script", ch |-> 0, rounds |-> 0 ] }
               \cup { [ kind |-> "free", ch |-> c, rounds |-> 0 ] :
                        c \in FreeChannels })

\* ------------------------------------------------------------------- init()
init ==
  /\ fg.op = "setup"
  /\ ADCSRA' = ADCSRA \cup { "ADIE", "ADPS2", "ADPS1", "ADEN", "ADSC" }
  /\ SREG_I' = TRUE
  /\ fg' = Idle
  /\ UNCHANGED << ADMUX, ADC_channel, ADC_channel_samples, buffers,
                  medianFilter, adc_output, env, log, fed, fullAtGate,
                  reached, drains, since, last >>

\* ------------------------------------------------------------- read_channel
\* Variant: the threshold itself is clamped as well.
read_channel_le(ADCL, ADCH) ==
  LET raw_val == ADCL + ADCH * 256
  IN  IF raw_val <= ADC_NOISE_VALUE THEN 0 ELSE raw_val

\* raw_val = ADCL | (ADCH << 8); the argument passed in is overwritten.
read_channel(ADCL, ADCH) ==
  LET raw_val == ADCL + ADCH * 256
  IN  IF raw_val < ADC_NOISE_VALUE THEN 0 ELSE raw_val

\* ------------------------------------------------------------ ISR(ADC_vect)
\* Variant: case 3 selects channel 5, so that channel 4 is skipped.
ISR_switch_skip(ch) ==
  IF ch = 3
    THEN [ buffer |-> 3, samples |-> 0, admux |-> 5 ]
    ELSE [ buffer |-> ch, samples |-> IF ch = 0 THEN 1 ELSE 0,
           admux |-> (ch + 1) % 8 ]

\* Variant: case 7 pushes into ADC0_buffer.
ISR_switch_case7(ch) ==
  [ buffer |-> IF ch = 7 THEN 0 ELSE ch, samples |-> IF ch = 0 THEN 1 ELSE 0,
    admux |-> (ch + 1) % 8 ]

\* Variant: case 3 pushes into ADC2_buffer.
ISR_switch_case3(ch) ==
  [ buffer |-> IF ch = 3 THEN 2 ELSE ch, samples |-> IF ch = 0 THEN 1 ELSE 0,
    admux |-> (ch + 1) % 8 ]

\* Variant: case 5 leaves channel 5 selected until it has run twice.
ISR_switch_again(ch) ==
  [ buffer |-> ch, samples |-> IF ch = 0 THEN 1 ELSE 0,
    admux |-> IF ch = 5 /\ Len(log[5]) % 2 = 0 THEN 5 ELSE (ch + 1) % 8 ]

\* The switch: which buffer the case pushes to, whether it counts a sample,
\* and the input it selects next.
ISR_switch(ch) ==
  CASE ch = 0 -> [ buffer |-> 0, samples |-> 1, admux |-> 1 ]
    [] ch = 1 -> [ buffer |-> 1, samples |-> 0, admux |-> 2 ]
    [] ch = 2 -> [ buffer |-> 2, samples |-> 0, admux |-> 3 ]
    [] ch = 3 -> [ buffer |-> 3, samples |-> 0, admux |-> 4 ]
    [] ch = 4 -> [ buffer |-> 4, samples |-> 0, admux |-> 5 ]
    [] ch = 5 -> [ buffer |-> 5, samples |-> 0, admux |-> 6 ]
    [] ch = 6 -> [ buffer |-> 6, samples |-> 0, admux |-> 7 ]
    [] ch = 7 -> [ buffer |-> 7, samples |-> 0, admux |-> 0 ]

\* Variant: the handler returns without starting a conversion.
ISR_restart_none == { }

\* ADCSRA |= (1 << ADSC), the last statement of the handler.
ISR_restart == { "ADSC" }

\* A conversion completes (the hardware clears ADSC) and the handler runs to
\* its end.
ISR_ADC_vect(bound) ==
  /\ { "ADIE", "ADEN", "ADSC" } \subseteq ADCSRA
  /\ SREG_I
  /\ Completions < bound
  /\ LET ch == ADMUX % 8
         sw == ISR_switch(ch)
     IN  \E r \in RawInput(env, ch, Len(log[ch])) :
           LET val == read_channel(r % 256, r \div 256)
               n == (ADC_channel_samples + sw.samples) % UInt16
           IN  /\ ADC_channel' = ch
               /\ buffers' = [ buffers EXCEPT ![sw.buffer] = push(@, val) ]
               /\ ADC_channel_samples' = n
               /\ ADMUX' = sw.admux
               /\ ADCSRA' = (ADCSRA \ { "ADSC" }) \cup ISR_restart
               /\ since' = since + sw.samples
               /\ log' = [ log EXCEPT ![ch] = Append(@, [ raw |-> r, val |-> val ]) ]
               /\ reached' = (reached \/ n >= buffer_size)
  /\ UNCHANGED << SREG_I, medianFilter, adc_output, fg, env, fed, fullAtGate,
                  drains, last >>

\* ----------------------------------------------------------------- ADC_read
\* Variant: the gate opens one sample early.
GatePasses_early(samples) == samples >= buffer_size - 1

\* if (ADC_channel_samples >= buffer_size)
GatePasses(samples) == samples >= buffer_size

\* The two bytes of a 16-bit value.
Lo(x) == x % UInt8
Hi(x) == x \div UInt8

\* The call, and the load of the first byte of the counter: the low byte
\* (fg.ch = 0) or the high byte (fg.ch = 1), kept in fg.i.
ADC_read_load ==
  /\ fg.op = "loop"
  /\ \E hiFirst \in { 0, 1 } :
       fg' = [ op |-> "gate", ch |-> hiFirst,
               i |-> IF hiFirst = 1 THEN Hi(ADC_channel_samples)
                                    ELSE Lo(ADC_channel_samples) ]
  /\ UNCHANGED << ADMUX, ADCSRA, SREG_I, ADC_channel, ADC_channel_samples,
                  buffers, medianFilter, adc_output, env, log, fed,
                  fullAtGate, reached, drains, since, last >>

\* The load of the other byte and the test of the value assembled.
ADC_read_gate ==
  /\ fg.op = "gate"
  /\ LET samples == IF fg.ch = 1
                      THEN fg.i * UInt8 + Lo(ADC_channel_samples)
                      ELSE Hi(ADC_channel_samples) * UInt8 + fg.i
     IN  IF GatePasses(samples)
           THEN /\ fg' = [ op |-> "add", ch |-> 0, i |-> 0 ]
                /\ fullAtGate' =
                     (\A c \in Channels : size(buffers[c]) = buffer_size)
                /\ last' = [ NoCall EXCEPT !.op = "ADC_read", !.passed = TRUE,
                                           !.samples = samples ]
           ELSE /\ fg' = Idle
                /\ fullAtGate' = fullAtGate
                /\ last' = [ NoCall EXCEPT !.op = "ADC_read",
                                           !.samples = samples ]
  /\ fed' = << >>
  /\ UNCHANGED << ADMUX, ADCSRA, SREG_I, ADC_channel, ADC_channel_samples,
                  buffers, medianFilter, adc_output, env, log, reached, drains,
                  since >>

\* Variant: the first block reads ADC1_buffer.
DrainBuffer_paste(c) == IF c = 0 THEN 1 ELSE c

\* The buffer the loop of block c reads.
DrainBuffer(c) == c

\* Variant: the loops stop one element short.
LoopBound_short == buffer_size - 1

\* The bound of the loops over a buffer.
LoopBound == buffer_size

\* Number, in its channel's stream, of the sample that at(b, index) returns.
SampleNo(c, index) ==
  IF index >= size(buffers[c])
    THEN Len(log[c]) - 1
    ELSE Len(log[c]) - size(buffers[c]) + index

\* One iteration of a loop: medianFilter.AddValue(ADCc_buffer[i]).
ADC_read_AddValue ==
  /\ fg.op = "add"
  /\ LET b == DrainBuffer(fg.ch)
     IN  /\ medianFilter' = AddValue(medianFilter, at(buffers[b], fg.i))
         /\ fed' = Append(fed, SampleNo(b, fg.i))
  /\ fg' = IF fg.i + 1 < LoopBound
             THEN [ fg EXCEPT !.i = fg.i + 1 ]
             ELSE [ op |-> "out", ch |-> fg.ch, i |-> 0 ]
  /\ UNCHANGED << ADMUX, ADCSRA, SREG_I, ADC_channel, ADC_channel_samples,
                  buffers, adc_output, env, log, fullAtGate, reached, drains,
                  since, last >>

\* adc_output[c] = medianFilter.GetFiltered().
ADC_read_GetFiltered ==
  /\ fg.op = "out"
  /\ adc_output' = [ adc_output EXCEPT ![fg.ch] = GetFiltered(medianFilter) ]
  /\ fg' = IF fg.ch + 1 < NumChannels
             THEN [ op |-> "add", ch |-> fg.ch + 1, i |-> 0 ]
             ELSE [ op |-> "reset", ch |-> 0, i |-> 0 ]
  /\ fed' = << >>
  /\ UNCHANGED << ADMUX, ADCSRA, SREG_I, ADC_channel, ADC_channel_samples,
                  buffers, medianFilter, env, log, fullAtGate, reached, drains,
                  since, last >>

\* ADC_channel_samples = 0, first store: the high byte (fg.ch = 1) or the
\* low byte (fg.ch = 0) is cleared.
ADC_read_reset ==
  /\ fg.op = "reset"
  /\ \E hiFirst \in { 0, 1 } :
       /\ ADC_channel_samples' =
            IF hiFirst = 1 THEN Lo(ADC_channel_samples)
                           ELSE Hi(ADC_channel_samples) * UInt8
       /\ fg' = [ op |-> "reset2", ch |-> hiFirst, i |-> 0 ]
  /\ since' = 0
  /\ UNCHANGED << ADMUX, ADCSRA, SREG_I, ADC_channel, buffers, medianFilter,
                  adc_output, env, log, fed, fullAtGate, reached, drains,
                  last >>

\* ADC_channel_samples = 0, second store: the other byte is cleared, and the
\* call returns.
ADC_read_reset2 ==
  /\ fg.op = "reset2"
  /\ ADC_channel_samples' =
       IF fg.ch = 1 THEN Hi(ADC_channel_samples) * UInt8
                    ELSE Lo(ADC_channel_samples)
  /\ fg' = Idle
  /\ drains' = drains + 1
  /\ UNCHANGED << ADMUX, ADCSRA, SREG_I, ADC_channel, buffers, medianFilter,
                  adc_output, env, log, fed, fullAtGate, reached, since,
                  last >>

\* ---------------------------------------------------- ADC_get_channel_value
\* The arguments a caller may pass, among them values that are no channel.
ChannelArgs == Channels \cup { -1, 8 }

\* Variant: the argument is compared as a signed int.
EnumValue_signed(arg) == arg

\* The enumeration has no negative enumerator: its underlying type is the
\* 16-bit unsigned int, and an int argument is converted modulo 2^16.
EnumValue(arg) == arg % UInt16

\* Result of the call: the value returned and whether the array was read
\* outside its 8 slots.
get_channel_value(arg) ==
  LET adc_ch == EnumValue(arg)
  IN  IF adc_ch < 8
        THEN IF adc_ch \in Channels
               THEN [ ret |-> adc_output[adc_ch], oob |-> FALSE ]
               ELSE [ ret |-> 0, oob |-> TRUE ]
        ELSE [ ret |-> 0, oob |-> FALSE ]

ADC_get_channel_value ==
  /\ fg.op = "loop"
  /\ \E arg \in ChannelArgs :
       LET res == get_channel_value(arg)
       IN  last' = [ op |-> "get", arg |-> arg, ret |-> res.ret,
                     oob |-> res.oob, passed |-> FALSE, samples |-> 0 ]
  /\ UNCHANGED << ADMUX, ADCSRA, SREG_I, ADC_channel, ADC_channel_samples,
                  buffers, medianFilter, adc_output, fg, env, log, fed,
                  fullAtGate, reached, drains, since >>

\* ----------------------------------------------------------- specifications
\* The program: the handler may fire between any two foreground steps.
Next ==
  \/ init
  \/ ISR_ADC_vect(MaxCompletions)
  \/ ADC_read_load
  \/ ADC_read_gate
  \/ ADC_read_AddValue
  \/ ADC_read_GetFiltered
  \/ ADC_read_reset
  \/ ADC_read_reset2
  \/ ADC_get_channel_value

Spec == Init /\ [][Next]_vars

\* The non-raced schedule: completions arrive only between foreground calls,
\* and the inputs carry a free signal or the scripted scenarios.
ISR_between_calls ==
  /\ fg.op = "loop"
  /\ ISR_ADC_vect(MaxCompletionsData)

NextData ==
  \/ init
  \/ ISR_between_calls
  \/ ADC_read_load
  \/ ADC_read_gate
  \/ ADC_read_AddValue
  \/ ADC_read_GetFiltered
  \/ ADC_read_reset
  \/ ADC_read_reset2
  \/ ADC_get_channel_value

SpecData == InitData /\ [][NextData]_vars

\* The program with a core that runs setup() and a converter that completes
\* every conversion it was asked to start.
SpecFair ==
  /\ Init
  /\ [][Next]_vars
  /\ WF_vars(init)
  /\ WF_vars(ISR_ADC_vect(MaxCompletions))

\* Rounds of the rotation already completed where a late run begins: two
\* short of a carry out of the counter's low byte, and two short of the
\* counter's wrap.
LateRounds == { UInt8 - 2, UInt16 - 2 }

\* Channel ch's buffer after R rounds of the rotation: push number p went to
\* slot p % buffer_size.
BufferAfter(ch, R) ==
  LET slot(i) ==
        LET p == R - ((R - i) % buffer_size)
            r == Level(ch, p - 1)
        IN  IF p >= 1 THEN read_channel(Lo(r), Hi(r)) ELSE 0
  IN  [ buffer |-> [ i \in 0 .. (buffer_size - 1) |-> slot(i) ],
        head |-> IF R = 0 THEN 0
                 ELSE IF R < buffer_size THEN 1 ELSE (R + 1) % buffer_size,
        tail |-> R % buffer_size,
        count |-> IF R < buffer_size THEN R ELSE buffer_size ]

\* BufferAfter is what the handler builds: it holds at the end of every round
\* of a run from Init.
BufferAfterRounds ==
  ADMUX = 0 /\ Completions % NumChannels = 0 =>
    \A c \in Channels : buffers[c] = BufferAfter(c, Completions \div NumChannels)

\* The program after init() and R rounds of the rotation during which the
\* foreground made no call: the counter and the buffers are what R handler
\* runs per channel left; the histories start here.
InitLate ==
  /\ \E R \in LateRounds :
       /\ ADC_channel_samples = R % UInt16
       /\ since = R
       /\ env = [ kind |-> "level", ch |-> 0, rounds |-> R ]
       /\ buffers = [ c \in Channels |-> BufferAfter(c, R) ]
  /\ ADMUX = 0
  /\ ADCSRA = { "ADIE", "ADPS2", "ADPS1", "ADEN", "ADSC" }
  /\ SREG_I = TRUE
  /\ ADC_channel = NumChannels - 1
  /\ medianFilter = MedianFilter
  /\ adc_output = [ c \in Channels |-> 0 ]
  /\ fg = Idle
  /\ log = [ c \in Channels |-> << >> ]
  /\ fed = << >>
  /\ fullAtGate = FALSE
  /\ reached = TRUE
  /\ drains = 0
  /\ last = NoCall

NextLate ==
  \/ ISR_ADC_vect(MaxCompletionsLate)
  \/ ADC_read_load
  \/ ADC_read_gate
  \/ ADC_read_AddValue
  \/ ADC_read_GetFiltered
  \/ ADC_read_reset
  \/ ADC_read_reset2
  \/ ADC_get_channel_value

SpecLate == InitLate /\ [][NextLate]_vars

\* ------------------------------------------------------------------ helpers
\* The elements of a buffer as operator[] presents them, oldest first.
Contents(b) == [ i \in 1 .. size(b) |-> at(b, i - 1) ]

\* m is a median of the odd-length sequence s, by counting: m occurs in s, and
\* fewer than half of the elements lie below it and fewer than half above.
IsMedian(m, s) ==
  /\ \E i \in 1 .. Len(s) : s[i] = m
  /\ 2 * Cardinality({ i \in 1 .. Len(s) : s[i] < m }) < Len(s)
  /\ 2 * Cardinality({ i \in 1 .. Len(s) : s[i] > m }) < Len(s)

\* The drain in progress has already written adc_output[c].
Written(c) ==
  \/ fg.op \in { "add", "out" } /\ c < fg.ch
  \/ fg.op \in { "reset", "reset2" }

\* The raw readings delivered so far on channel c.
RawLog(c) == [ k \in 1 .. Len(log[c]) |-> log[c][k].raw ]

AllFull == \A c \in Channels : size(buffers[c]) = buffer_size

\* ------------------------------------------------------------------- claims

\* C1: whenever ADC_read has passed its gate and reads a channel's ring
\* buffer, that buffer already holds buffer_size pushed samples.
C1_NoUnderrun ==
  fg.op = "add" => size(buffers[DrainBuffer(fg.ch)]) = buffer_size

\* C2: adc_output changes only inside an ADC_read whose call found
\* ADC_channel_samples >= buffer_size (a call made below the gate leaves all
\* 8 slots unchanged), and until the counter has reached buffer_size once,
\* ADC_get_channel_value returns 0 for every channel 0..7.
C2_DrainGating ==
  /\ [](~reached => \A c \in Channels : get_channel_value(c).ret = 0)
  /\ [][adc_output' # adc_output =>
          last.op = "ADC_read" /\ last.samples >= buffer_size]_vars

C2_Witness ==
  /\ ~reached
  /\ Completions >= 32
  /\ last.op = "ADC_read" /\ ~last.passed /\ last.samples = buffer_size - 1
  /\ \E c \in Channels : at(buffers[c], 0) # 0

C4_RoundRobin ==
  /\ ADMUX = Completions % 8
  /\ Completions > 0 =>
       ADC_channel = (Completions - 1) % 8 /\ ADMUX = (ADC_channel + 1) % 8
  /\ \A c \in Channels : Len(log[c]) = (Completions + 7 - c) \div 8

C4_Witness ==
  /\ Completions = 2 * NumChannels + 1
  /\ ADC_channel = 0
  /\ ADMUX = 1
  /\ Len(log[7]) = 2

\* C5: when the handler fires during an ADC_read that passed the gate with
\* all buffers full, the buffer_size values fed to the filter for a channel
\* are consecutive samples of that channel's stream, none skipped or
\* duplicated.
C5_SnapshotUnderRace ==
  fg.op = "out" /\ fullAtGate =>
    \A j \in 1 .. (Len(fed) - 1) : fed[j + 1] = fed[j] + 1

\* C6: the value the handler pushes for a raw reading r is 0 when
\* r < ADC_NOISE_VALUE and r itself otherwise.
C6_NoiseClamp ==
  \A c \in Channels :
    Len(log[c]) > 0 =>
      LET r == log[c][Len(log[c])].raw
      IN  at(buffers[c], size(buffers[c]) - 1) =
            IF r < ADC_NOISE_VALUE THEN 0 ELSE r

C6_Witness ==
  /\ \E c \in Channels :
       /\ Len(log[c]) > 0
       /\ log[c][Len(log[c])].raw = ADC_NOISE_VALUE - 1
       /\ at(buffers[c], size(buffers[c]) - 1) = 0
  /\ \E c \in Channels :
       /\ Len(log[c]) > 0
       /\ log[c][Len(log[c])].raw = ADC_NOISE_VALUE
       /\ at(buffers[c], size(buffers[c]) - 1) = ADC_NOISE_VALUE
  /\ \E c \in Channels :
       /\ Len(log[c]) > 0
       /\ log[c][Len(log[c])].raw = 1000
       /\ at(buffers[c], size(buffers[c]) - 1) = 1000

C8_ScenarioAsStated ==
  RawLog(0) = Script0 /\ drains >= 1 /\ fg.op = "loop" =>
    /\ Contents(buffers[0]) = << 0, 0, 100, 0, 0 >>
    /\ get_channel_value(0).ret = 0

\* C8 amended: with those five readings the buffer holds [0, 0, 100, 21, 20]
\* (21 and 20 are not below the threshold) and after one full drain
\* ADC_get_channel_value(ADC_CHANNEL_0) returns 20.
C8_Scenario ==
  RawLog(0) = Script0 /\ drains >= 1 /\ fg.op = "loop" =>
    /\ Contents(buffers[0]) = << 0, 0, 100, 21, 20 >>
    /\ get_channel_value(0).ret = 20

C8_Witness ==
  /\ RawLog(0) = Script0
  /\ drains = 1
  /\ fg.op = "loop"
  /\ last.op = "get" /\ last.arg = 0 /\ last.ret = 20

\* C9: after k pushes a channel's buffer has size min(k, buffer_size) and
\* holds the last min(k, buffer_size) pushed values in push order, index 0
\* the oldest; so after buffer_size + 1 pushes the first pushed element is
\* gone.
C9_RingOverwrite ==
  \A c \in Channels :
    LET k == Len(log[c])
        n == size(buffers[c])
    IN  /\ n = IF k < buffer_size THEN k ELSE buffer_size
        /\ \A i \in 0 .. (n - 1) : at(buffers[c], i) = log[c][k - n + i + 1].val

C9_Witness ==
  /\ Len(log[0]) = buffer_size + 1
  /\ size(buffers[0]) = buffer_size
  /\ at(buffers[0], 0) = log[0][2].val
  /\ at(buffers[0], 0) # log[0][1].val

\* C10: the handler for completed channel K changes only channel K's buffer,
\* the selected channel, ADC_channel and (K = 0) the counter; ADC_read changes
\* no buffer; ADC_get_channel_value changes nothing; adc_output changes only
\* in the drain's output step.
C10_SingleWriter ==
  [][ /\ log' # log =>
           /\ adc_output' = adc_output
           /\ medianFilter' = medianFilter
           /\ \A c \in Channels : c # ADMUX => buffers'[c] = buffers[c]
           /\ ADMUX # 0 => ADC_channel_samples' = ADC_channel_samples
      /\ log' = log /\ (fg' # fg \/ last'.op = "ADC_read") => buffers' = buffers
      /\ log' = log /\ last' # last /\ last'.op = "get" =>
           UNCHANGED << ADMUX, ADCSRA, SREG_I, ADC_channel,
                        ADC_channel_samples, buffers, medianFilter,
                        adc_output >>
      /\ adc_output' # adc_output => fg.op = "out" ]_vars

C10_Witness ==
  /\ drains >= 1
  /\ last.op = "get"
  /\ Completions > 5 * NumChannels
  /\ \E c \in Channels : adc_output[c] # 0

\* C11: at each channel-0 completion, the moment the handler increments
\* ADC_channel_samples, every other channel 1..7 has accumulated at least as
\* many pushed samples as channel 0.
C11_CountingConservative ==
  Completions > 0 /\ ADC_channel = 0 =>
    \A c \in Channels \ { 0 } : Len(log[c]) >= Len(log[0])

C12_PipelineNeverIdles ==
  /\ [](fg.op # "setup" => { "ADEN", "ADIE", "ADSC" } \subseteq ADCSRA /\ SREG_I)
  /\ [][log' # log =>
          /\ ADMUX' = (ADMUX + 1) % NumChannels
          /\ "ADSC" \in ADCSRA']_vars
  /\ <>(\A c \in Channels : Len(log[c]) >= MaxCompletions \div NumChannels)

C12_Witness ==
  /\ \A c \in Channels : Len(log[c]) = MaxCompletions \div NumChannels
  /\ ADC_channel = 7
  /\ ADMUX = 0
  /\ "ADSC" \in ADCSRA

\* C13: an ADC_read that passes the gate writes adc_output[0..7] and then
\* sets ADC_channel_samples to 0; after that reset no ADC_read passes the gate
\* again until at least buffer_size further channel-0 completions have
\* occurred (counted here from the first store of the reset, the earliest
\* point the claim can mean), also when completions fire during the drain.
C13_CounterReset ==
  fg.op \in { "add", "out" } /\ drains >= 1 => since >= buffer_size

\* C16: once ADC_channel_samples has counted buffer_size channel-0
\* completions, the gate condition ADC_channel_samples >= buffer_size holds in
\* every later state until an ADC_read resets the counter, however many
\* completions occur.
C16_GateStable ==
  since >= buffer_size /\ fg.op # "reset2" => GatePasses(ADC_channel_samples)

====
